---- MODULE Spec2Model ----
(***************************************************************************)
(* A model of aiosmtpd/handlers.py: the Proxy handler (the relay           *)
(* forwarder) with its outbound smtplib session, and the Message /         *)
(* AsyncMessage handlers (the message enricher).                           *)
(*                                                                         *)
(* Text is a sequence of tokens: the token NL is the character '\n', every *)
(* other token is a chunk of text without a '\n'.  A line is a sequence of *)
(* tokens without NL; the empty line is << >>.                             *)
(***************************************************************************)
EXTENDS Integers, Sequences, FiniteSets, TLC

VARIABLES
    hostname,   \* Proxy._hostname
    port,       \* Proxy._port
    pc,         \* per call of Proxy.process_message: where the call stands
    txn,        \* per call: the arguments (peer, mailfrom, rcpttos, data)
    data,       \* per call: the local `data` after line 93 (the modified body)
    s,          \* per call: the local `s`, a key of sessions (0: unbound)
    refused,    \* per call: the local `refused`, a mapping rcpt -> <<code, msg>>
    exc,        \* per call: the exception in flight (NoExc when none)
    sendres,    \* per call: what s.sendmail did (observation of the library)
    caught,     \* per call: the exception an except clause handled
    logged,     \* per call: the refusal sets log.info reported in this call
    sessions,   \* the smtplib.SMTP objects, keyed by the call that created them
    insBody,    \* header insertion alone: the body given
    insPeer,    \* header insertion alone: the peer
    insOut,     \* header insertion alone: the body produced
    insPc,      \* header insertion alone: "in" or "out"
    mpc,        \* per call of Message.process_message: where the call stands
    margs,      \* per call: the arguments (kind, peer, mailfrom, rcpttos, data)
    message,    \* per call: the local `message`
    handed,     \* per call: the messages handle_message was invoked with
    events,     \* per call: the steps of process_message in execution order
    hout,       \* per call: the outcome of handle_message
    mout,       \* per call: the outcome of process_message
    mailbox     \* Mailbox.mailbox: the messages added

proxyVars == <<hostname, port, pc, txn, data, s, refused, exc, sendres, caught,
               logged, sessions>>
insVars == <<insBody, insPeer, insOut, insPc>>
msgVars == <<mpc, margs, message, handed, events, hout, mout, mailbox>>
vars == <<proxyVars, insVars, msgVars>>

---------------------------------------------------------------------------
(* Bounds and input sets *)

NumCalls == 2       \* calls of process_message on one Proxy instance
MaxBodyLen == 4     \* tokens of a body given to the header insertion
NumMsgCalls == 2    \* concurrent calls on one Message instance

Calls == 1..NumCalls

COMMASPACE == ", "
NEWLINE == "\n"
NL == NEWLINE

Range(f) == {f[i] : i \in DOMAIN f}

---------------------------------------------------------------------------
(* Text: str.split('\n') and '\n'.join *)

RECURSIVE Split(_)
\* data.split('\n'): the lines of a text; always at least one line.
Split(str) ==
    IF \A k \in 1..Len(str) : str[k] # NL
    THEN <<str>>
    ELSE LET k == CHOOSE j \in 1..Len(str) :
                      str[j] = NL /\ \A m \in 1..(j-1) : str[m] # NL
         IN <<SubSeq(str, 1, k-1)>> \o Split(SubSeq(str, k+1, Len(str)))

RECURSIVE Join(_, _)
\* sep.join(lines) for lines that are token sequences.
Join(sep, lines) ==
    IF Len(lines) = 0 THEN << >>
    ELSE IF Len(lines) = 1 THEN lines[1]
    ELSE lines[1] \o <<sep>> \o Join(sep, Tail(lines))

\* list.insert(i, x) with 0 <= i <= len(list) (Python's 0-based index).
Insert(lines, i, x) ==
    SubSeq(lines, 1, i) \o <<x>> \o SubSeq(lines, i+1, Len(lines))

RECURSIVE ScanFrom(_, _)
\* The loop of lines 87-91 from 0-based position i on: i is advanced over
\* every non-empty line and the loop breaks at the first empty one.
ScanFrom(lines, i) ==
    IF i >= Len(lines) THEN i
    ELSE IF lines[i+1] = << >> THEN i
    ELSE ScanFrom(lines, i+1)

\* The mutant of LastHeader: the peer line goes after the blank line.
LastHeaderAfterBlank(lines) ==
    LET i == ScanFrom(lines, 0) IN IF i < Len(lines) THEN i + 1 ELSE i

\* The value of i after the loop of lines 87-91.
LastHeader(lines) == ScanFrom(lines, 0)

\* 'X-Peer: %s' % peer[0]
PeerLine(peer) == <<"X-Peer: ", peer[1]>>

\* Lines 85-93 of Proxy.process_message: the body with the peer line added.
AddPeer(peer, body) ==
    LET lines == Split(body)
    IN Join(NEWLINE, Insert(lines, LastHeader(lines), PeerLine(peer)))

---------------------------------------------------------------------------
(* The outbound session: what smtplib can do at each call *)

\* Proxy(remote_hostname, remote_port): the configuration under test.
RemoteHost == "relay.example"
RemotePort == 2525

\* An exception object.  has_code says whether it has the attributes
\* smtp_code and smtp_error (SMTPResponseException and its subclasses).
Exception(kind, has_code, code, msg, recipients) ==
    [kind |-> kind, has_code |-> has_code, smtp_code |-> code,
     smtp_error |-> msg, recipients |-> recipients]

\* refused = {}
EmptyMap == [r \in {} |-> <<0, "">>]

NoExc == Exception("none", FALSE, 0, "", EmptyMap)
OSErr == Exception("OSError", FALSE, 0, "", EmptyMap)
Disconnected == Exception("SMTPServerDisconnected", FALSE, 0, "", EmptyMap)
ResponseException(code, msg) ==
    Exception("SMTPResponseException", TRUE, code, msg, EmptyMap)
RecipientsRefused(m) == Exception("SMTPRecipientsRefused", FALSE, 0, "", m)
\* What msg.encode('ascii') raises inside s.sendmail: a ValueError, neither
\* an OSError nor an SMTPException.
UnicodeEncodeError == Exception("UnicodeEncodeError", FALSE, 0, "", EmptyMap)

\* The classes of smtplib.SMTPException that the model raises.
SMTPExceptionKinds ==
    {"SMTPServerDisconnected", "SMTPResponseException", "SMTPRecipientsRefused"}

\* A chunk of text with a character outside ASCII.
NONASCII == "caf[U+00E9]"

\* Whether str.encode('ascii') succeeds on a text.
IsAscii(text) == \A k \in 1..Len(text) : text[k] # NONASCII

\* The replies of the relay to a RCPT command: accepted, refused, refused
\* with the relay closing the connection.
Replies == {"250", "550", "421"}

\* The (code, message) pair of a refusing reply.
ReplyPair(reply) == IF reply = "550" THEN <<550, "no such user">> ELSE <<421, "closing">>

\* The failures of connect, and of sendmail at EHLO, MAIL and DATA.
Failures == {OSErr, ResponseException(554, "rejected")}

\* The failures of quit: the connection is gone, or the reply line is over
\* the limit.
QuitFailures == {Disconnected, ResponseException(500, "Line too long.")}

\* The transactions the protocol layer hands over.
Txns ==
    { [peer |-> <<"10.0.0.1", 40001>>, mailfrom |-> "anne@example.com",
       rcpttos |-> <<"r1", "r1">>, data |-> <<"Subject: a">>],
      [peer |-> <<"10.0.0.2", 40002>>, mailfrom |-> "bart@example.com",
       rcpttos |-> <<"r1", "r2">>,
       data |-> <<"Subject: b", NL, NL, "hello">>],
      [peer |-> <<"10.0.0.2", 40002>>, mailfrom |-> "cris@example.com",
       rcpttos |-> <<"r2">>,
       data |-> <<"Subject: ", NONASCII, NL, NL, "hello">>] }

NoTxn == [peer |-> <<"", 0>>, mailfrom |-> "", rcpttos |-> << >>, data |-> << >>]

\* dict assignment m[k] = v
Put(m, k, v) == [x \in (DOMAIN m) \cup {k} |-> IF x = k THEN v ELSE m[x]]

RECURSIVE RcptLoop(_, _, _, _)
\* The loop of s.sendmail over the recipients from position i on: every
\* refusing reply is recorded under its recipient, and a 421 ends the loop.
RcptLoop(rcpttos, replies, i, senderrs) ==
    IF i > Len(rcpttos) THEN [stopped |-> FALSE, senderrs |-> senderrs]
    ELSE LET errs == IF replies[i] = "250" THEN senderrs
                     ELSE Put(senderrs, rcpttos[i], ReplyPair(replies[i]))
         IN IF replies[i] = "421" THEN [stopped |-> TRUE, senderrs |-> errs]
            ELSE RcptLoop(rcpttos, replies, i+1, errs)

\* What s.sendmail does with the replies to its RCPT commands: after a 421
\* it closes the connection and raises SMTPRecipientsRefused with the
\* recipients refused so far; when as many recipients are recorded as were
\* given it raises SMTPRecipientsRefused; otherwise it returns the record.
SendmailRcpts(rcpttos, replies) ==
    LET l == RcptLoop(rcpttos, replies, 1, EmptyMap)
    IN IF l.stopped
       THEN [how |-> "raised", map |-> l.senderrs,
             exc |-> RecipientsRefused(l.senderrs), closed |-> TRUE]
       ELSE IF Cardinality(DOMAIN l.senderrs) = Len(rcpttos)
       THEN [how |-> "raised", map |-> l.senderrs,
             exc |-> RecipientsRefused(l.senderrs), closed |-> FALSE]
       ELSE [how |-> "returned", map |-> l.senderrs, exc |-> NoExc,
             closed |-> FALSE]

\* Everything s.sendmail(mailfrom, rcpttos, body) can do with a relay whose
\* replies to RCPT are among rs: fail at EHLO, MAIL or DATA; fail to encode
\* a body that is not ASCII, before MAIL is sent; otherwise what the
\* replies to RCPT decide.
SendmailOutcomes(rcpttos, body, rs) ==
    {[how |-> "raised", map |-> EmptyMap, exc |-> e, closed |-> FALSE] : e \in Failures}
    \cup (IF IsAscii(body)
          THEN {SendmailRcpts(rcpttos, replies) : replies \in [1..Len(rcpttos) -> rs]}
          ELSE {[how |-> "raised", map |-> EmptyMap, exc |-> UnicodeEncodeError,
                 closed |-> FALSE]})

NoSendmail == [how |-> "none", map |-> EmptyMap, exc |-> NoExc, closed |-> FALSE]

\* The place of a call's session object before the call has created it.
NoSession ==
    [owner |-> 0, for |-> NoTxn, connected |-> FALSE, target |-> <<"", 0>>,
     sent |-> << >>, quits |-> 0, users |-> {}]

\* smtplib.SMTP(): a session object, not connected.
NewSession(c, t) ==
    [owner |-> c, for |-> t, connected |-> FALSE, target |-> <<"", 0>>,
     sent |-> << >>, quits |-> 0, users |-> {}]

---------------------------------------------------------------------------
(* Proxy *)

\* The mutant of LocalS: the session is kept on the handler instance, so
\* every call uses the same one.
SharedS(c) ==
    CHOOSE i \in Calls :
        sessions[i] # NoSession /\ \A j \in Calls : sessions[j] # NoSession => i <= j

\* The session a call works on: its local variable s.
LocalS(c) == s[c]

\* The mutant of SendmailNext: quit only when sendmail returned.
SendmailNextNoFinally(e) == IF e = NoExc THEN "quit" ELSE "except"

\* Lines 103-106: whatever sendmail did, the finally clause runs s.quit().
SendmailNext(e) == "quit"

\* Line 110: except (OSError, smtplib.SMTPException).
Catches(kind) == kind = "OSError" \/ kind \in SMTPExceptionKinds

\* The mutant of Errcode: the sentinel whatever the failure carries.
ErrcodeSentinel(e) == -1

\* Line 115: getattr(e, 'smtp_code', -1)
Errcode(e) == IF e.has_code THEN e.smtp_code ELSE -1

\* Line 116: getattr(e, 'smtp_error', 'ignore')
Errmsg(e) == IF e.has_code THEN e.smtp_error ELSE "ignore"

\* Lines 117-118: for r in rcpttos: refused[r] = (errcode, errmsg)
RefuseAll(m, rcpttos, e) ==
    [r \in (DOMAIN m) \cup Range(rcpttos) |->
        IF r \in Range(rcpttos) THEN <<Errcode(e), Errmsg(e)>> ELSE m[r]]

ProxyInit ==
    /\ hostname = RemoteHost
    /\ port = RemotePort
    /\ pc = [c \in Calls |-> "idle"]
    /\ txn = [c \in Calls |-> NoTxn]
    /\ data = [c \in Calls |-> << >>]
    /\ s = [c \in Calls |-> 0]
    /\ refused = [c \in Calls |-> EmptyMap]
    /\ exc = [c \in Calls |-> NoExc]
    /\ sendres = [c \in Calls |-> NoSendmail]
    /\ caught = [c \in Calls |-> NoExc]
    /\ logged = [c \in Calls |-> << >>]
    /\ sessions = [c \in Calls |-> NoSession]

\* Proxy.process_message, lines 85-94, and _deliver, lines 99-101: the peer
\* line is inserted, refused starts empty and the session object is created.
ProxyProcessMessage(c, t) ==
    /\ pc[c] = "idle"
    /\ txn' = [txn EXCEPT ![c] = t]
    /\ data' = [data EXCEPT ![c] = AddPeer(t.peer, t.data)]
    /\ refused' = [refused EXCEPT ![c] = EmptyMap]
    /\ sessions' = [sessions EXCEPT ![c] = NewSession(c, t)]
    /\ s' = [s EXCEPT ![c] = c]
    /\ exc' = [exc EXCEPT ![c] = NoExc]
    /\ sendres' = [sendres EXCEPT ![c] = NoSendmail]
    /\ caught' = [caught EXCEPT ![c] = NoExc]
    /\ logged' = [logged EXCEPT ![c] = << >>]
    /\ pc' = [pc EXCEPT ![c] = "connect"]
    /\ UNCHANGED <<hostname, port>>

\* Line 102, s.connect(self._hostname, self._port), when it succeeds.
DeliverConnect(c) ==
    /\ pc[c] = "connect"
    /\ sessions' = [sessions EXCEPT ![LocalS(c)] =
            [@ EXCEPT !.connected = TRUE, !.target = <<hostname, port>>,
                      !.users = @ \cup {c}]]
    /\ pc' = [pc EXCEPT ![c] = "sendmail"]
    /\ UNCHANGED <<hostname, port, txn, data, s, refused, exc, sendres, caught,
                   logged>>

\* Line 102 when connect raises e: control leaves the outer try.
DeliverConnectFails(c, e) ==
    /\ pc[c] = "connect"
    /\ sessions' = [sessions EXCEPT ![LocalS(c)] =
            [@ EXCEPT !.target = <<hostname, port>>, !.users = @ \cup {c}]]
    /\ exc' = [exc EXCEPT ![c] = e]
    /\ pc' = [pc EXCEPT ![c] = "except"]
    /\ UNCHANGED <<hostname, port, txn, data, s, refused, sendres, caught,
                   logged>>

\* Line 104 when s.sendmail returns the mapping o.map, which is bound to
\* refused.
DeliverSendmail(c, o) ==
    /\ pc[c] = "sendmail"
    /\ o.how = "returned"
    /\ sessions' = [sessions EXCEPT ![LocalS(c)] =
            [@ EXCEPT !.sent = Append(@, <<txn[c].mailfrom, txn[c].rcpttos, data[c]>>),
                      !.users = @ \cup {c}]]
    /\ refused' = [refused EXCEPT ![c] = o.map]
    /\ sendres' = [sendres EXCEPT ![c] = o]
    /\ pc' = [pc EXCEPT ![c] = SendmailNext(NoExc)]
    /\ UNCHANGED <<hostname, port, txn, data, s, exc, caught, logged>>

\* Line 104 when s.sendmail raises o.exc: refused is not assigned.
DeliverSendmailFails(c, o) ==
    /\ pc[c] = "sendmail"
    /\ o.how = "raised"
    /\ sessions' = [sessions EXCEPT ![LocalS(c)] =
            [@ EXCEPT !.sent = Append(@, <<txn[c].mailfrom, txn[c].rcpttos, data[c]>>),
                      !.users = @ \cup {c}]]
    /\ exc' = [exc EXCEPT ![c] = o.exc]
    /\ sendres' = [sendres EXCEPT ![c] = o]
    /\ pc' = [pc EXCEPT ![c] = SendmailNext(o.exc)]
    /\ UNCHANGED <<hostname, port, txn, data, s, refused, caught, logged>>

\* Line 106, s.quit() in the finally clause, when it returns.  With no
\* exception in flight _deliver returns refused (line 119) and
\* process_message logs it (lines 94-96); otherwise the exception of
\* sendmail goes on propagating.
DeliverQuit(c) ==
    /\ pc[c] = "quit"
    /\ ~sendres[c].closed
    /\ sessions' = [sessions EXCEPT ![LocalS(c)] =
            [@ EXCEPT !.quits = @ + 1, !.users = @ \cup {c}]]
    /\ IF exc[c] = NoExc
       THEN /\ logged' = [logged EXCEPT ![c] = Append(@, refused[c])]
            /\ pc' = [pc EXCEPT ![c] = "done"]
       ELSE /\ pc' = [pc EXCEPT ![c] = "except"]
            /\ UNCHANGED logged
    /\ UNCHANGED <<hostname, port, txn, data, s, refused, exc, sendres, caught>>

\* Line 106 when s.quit() raises e: e replaces whatever was propagating.  On
\* a connection that sendmail closed, quit raises SMTPServerDisconnected.
DeliverQuitFails(c, e) ==
    /\ pc[c] = "quit"
    /\ sendres[c].closed => e = Disconnected
    /\ sessions' = [sessions EXCEPT ![LocalS(c)] =
            [@ EXCEPT !.quits = @ + 1, !.users = @ \cup {c}]]
    /\ exc' = [exc EXCEPT ![c] = e]
    /\ pc' = [pc EXCEPT ![c] = "except"]
    /\ UNCHANGED <<hostname, port, txn, data, s, refused, sendres, caught,
                   logged>>

\* Lines 107-119 and 94-96.  The except clauses in their order:
\* SMTPRecipientsRefused first, then (OSError, SMTPException); _deliver then
\* returns refused and process_message logs it.  An exception that matches
\* neither clause leaves _deliver and process_message.
DeliverExcept(c) ==
    /\ pc[c] = "except"
    /\ IF exc[c].kind = "SMTPRecipientsRefused"
       THEN /\ refused' = [refused EXCEPT ![c] = exc[c].recipients]
            /\ caught' = [caught EXCEPT ![c] = exc[c]]
            /\ exc' = [exc EXCEPT ![c] = NoExc]
            /\ logged' = [logged EXCEPT ![c] = Append(@, refused'[c])]
            /\ pc' = [pc EXCEPT ![c] = "done"]
       ELSE IF Catches(exc[c].kind)
       THEN /\ refused' = [refused EXCEPT ![c] = RefuseAll(@, txn[c].rcpttos, exc[c])]
            /\ caught' = [caught EXCEPT ![c] = exc[c]]
            /\ exc' = [exc EXCEPT ![c] = NoExc]
            /\ logged' = [logged EXCEPT ![c] = Append(@, refused'[c])]
            /\ pc' = [pc EXCEPT ![c] = "done"]
       ELSE /\ pc' = [pc EXCEPT ![c] = "raised"]
            /\ UNCHANGED <<refused, caught, exc, logged>>
    /\ UNCHANGED <<hostname, port, txn, data, s, sendres, sessions>>

\* The calls of one Proxy, one after the other or shared by threads: the
\* calls interleave at every call into the session.
ProxyNext ==
    \E c \in Calls :
        \/ \E t \in Txns : ProxyProcessMessage(c, t)
        \/ DeliverConnect(c)
        \/ \E e \in Failures : DeliverConnectFails(c, e)
        \/ /\ pc[c] = "sendmail"
           /\ \E o \in SendmailOutcomes(txn[c].rcpttos, data[c], Replies) :
                  \/ DeliverSendmail(c, o)
                  \/ DeliverSendmailFails(c, o)
        \/ DeliverQuit(c)
        \/ \E e \in QuitFailures : DeliverQuitFails(c, e)
        \/ DeliverExcept(c)

---------------------------------------------------------------------------
(* The header insertion of Proxy.process_message on its own *)

\* The tokens bodies are made of: text, a header-like chunk, the newline.
Tokens == {"a", "H: v", NL}

\* Every text of at most n tokens.
Texts(n) == UNION { [1..k -> Tokens] : k \in 0..n }

PeerSet == {<<"10.0.0.1", 40001>>, <<"mail.example", 40002>>}

InsIdle ==
    /\ insBody = << >>
    /\ insPeer = <<"", 0>>
    /\ insOut = << >>
    /\ insPc = "idle"

InsInit ==
    /\ insBody \in Texts(MaxBodyLen)
    /\ insPeer \in PeerSet
    /\ insOut = << >>
    /\ insPc = "in"

\* Lines 85-93 applied to (insPeer, insBody).
InsertPeer ==
    /\ insPc = "in"
    /\ insOut' = AddPeer(insPeer, insBody)
    /\ insPc' = "out"
    /\ UNCHANGED <<insBody, insPeer>>

---------------------------------------------------------------------------
(* Message, AsyncMessage and Mailbox *)

\* A transaction body is a type tag and its lines.  A header line is the
\* pair <<name, value>>, the blank line is << >>, a line of text has one
\* token.
MsgCalls == 1..NumMsgCalls

\* message_from_string / message_from_bytes as the handlers use them: the
\* header lines up to the first line that is no header are the headers, in
\* order and with repetitions; what follows the separating blank line is
\* the payload.  Both decode paths read the same lines.
RECURSIVE HeaderCount(_, _)
HeaderCount(lines, i) ==
    IF i < Len(lines) /\ Len(lines[i+1]) = 2 THEN HeaderCount(lines, i+1) ELSE i

Decode(body) ==
    LET n == HeaderCount(body.lines, 0)
        rest == SubSeq(body.lines, n+1, Len(body.lines))
    IN [headers |-> SubSeq(body.lines, 1, n),
        payload |-> IF Len(rest) > 0 /\ rest[1] = << >> THEN Tail(rest) ELSE rest]

\* The mutant of SetItem: an existing header of that name is replaced.
SetItemReplace(msg, name, value) ==
    [msg EXCEPT !.headers =
        Append(SelectSeq(@, LAMBDA h : h[1] # name), <<name, value>>)]

\* message[name] = value (email.message.Message.__setitem__): the header is
\* appended; headers of the same name stay.
SetItem(msg, name, value) ==
    [msg EXCEPT !.headers = Append(@, <<name, value>>)]

\* str(peer) for the tuple (host, port)
StrPeer(peer) == <<"('", peer[1], "', ", peer[2], ")">>

\* COMMASPACE.join(rcpttos)
JoinRcpts(rcpttos) == Join(COMMASPACE, [k \in DOMAIN rcpttos |-> <<rcpttos[k]>>])

\* The mutant of ProcessSteps: handle_message is invoked before the last
\* provenance header is set.
ProcessStepsHandleEarly == <<"decode", "X-Peer", "X-MailFrom", "handle", "X-RcptTos">>

\* Lines 142-151 and 164-173 in program order.
ProcessSteps == <<"decode", "X-Peer", "X-MailFrom", "X-RcptTos", "handle">>

NoMessage == [headers |-> << >>, payload |-> << >>]

\* One step of process_message on the frame f = [message, handed, events].
Step(f, step, a) ==
    LET m == IF step = "decode" THEN Decode(a.data)
             ELSE IF step = "X-Peer" THEN SetItem(f.message, "X-Peer", StrPeer(a.peer))
             ELSE IF step = "X-MailFrom" THEN SetItem(f.message, "X-MailFrom", <<a.mailfrom>>)
             ELSE IF step = "X-RcptTos" THEN SetItem(f.message, "X-RcptTos", JoinRcpts(a.rcpttos))
             ELSE f.message
    IN [message |-> m,
        handed |-> IF step = "handle" THEN Append(f.handed, m) ELSE f.handed,
        events |-> Append(f.events, step)]

RECURSIVE RunSteps(_, _, _)
RunSteps(f, steps, a) ==
    IF Len(steps) = 0 THEN f
    ELSE RunSteps(Step(f, Head(steps), a), Tail(steps), a)

\* The frame of process_message when handle_message has been invoked.
Enrich(a) ==
    RunSteps([message |-> NoMessage, handed |-> << >>, events |-> << >>],
             ProcessSteps, a)

NoOutcome == [how |-> "none", value |-> "None"]
Returned(v) == [how |-> "returned", value |-> v]
Raised(e) == [how |-> "raised", value |-> e]

\* What a handle_message supplied by a subclass can do; the base class
\* raises NotImplementedError (lines 153-154, 175-177).
HandleOutcomes ==
    {Returned("None"), Returned("550 rejected"), Raised("NotImplementedError"),
     Raised("OSError")}

\* Mailbox.handle_message (lines 186-187): the value of mailbox.add is
\* dropped, a failure of the store propagates.  The store cannot write the
\* payload of a message decoded from a str when it has a character outside
\* ASCII; a header value with one is written encoded.
MailboxOutcomes(body) ==
    IF body.type = "str"
       /\ \E k \in DOMAIN Decode(body).payload : NONASCII \in Range(Decode(body).payload[k])
    THEN {Raised("OSError"), Raised("UnicodeEncodeError")}
    ELSE {Returned("None"), Raised("OSError")}

\* Lines 151 and 173: handle_message is called as a statement, so its value
\* is dropped and process_message returns None; its exception propagates.
ProcessOutcome(h) == IF h.how = "raised" THEN h ELSE Returned("None")

Bodies ==
    { [type |-> "str",
       lines |-> <<<<"X-Peer", "forged">>, <<"Subject", NONASCII>>, << >>, <<"text">>>>],
      [type |-> "bytes", lines |-> <<<<"Subject", "s">>>>],
      [type |-> "str", lines |-> <<<<"Subject", "s">>, << >>, <<NONASCII>>>>],
      [type |-> "other", lines |-> << >>] }

MsgArgs ==
    [kind : {"Message", "AsyncMessage", "Mailbox"},
     peer : {<<"10.0.0.1", 40001>>},
     mailfrom : {"anne@example.com"},
     rcpttos : {<<"r1">>, <<"r2", "r1">>},
     data : Bodies]

NoArgs == [kind |-> "", peer |-> <<"", 0>>, mailfrom |-> "", rcpttos |-> << >>,
           data |-> [type |-> "", lines |-> << >>]]

MsgIdle ==
    /\ mpc = [c \in MsgCalls |-> "idle"]
    /\ margs = [c \in MsgCalls |-> NoArgs]
    /\ message = [c \in MsgCalls |-> NoMessage]
    /\ handed = [c \in MsgCalls |-> << >>]
    /\ events = [c \in MsgCalls |-> << >>]
    /\ hout = [c \in MsgCalls |-> NoOutcome]
    /\ mout = [c \in MsgCalls |-> NoOutcome]
    /\ mailbox = << >>

\* Lines 145-146 and 167-168: the body is neither bytes nor str, the assert
\* fails and process_message raises before anything else is done.
MessageTypeMismatch(c, a) ==
    /\ mpc[c] = "idle"
    /\ a.data.type \notin {"str", "bytes"}
    /\ margs' = [margs EXCEPT ![c] = a]
    /\ mout' = [mout EXCEPT ![c] = Raised("AssertionError")]
    /\ mpc' = [mpc EXCEPT ![c] = "done"]
    /\ UNCHANGED <<message, handed, events, hout, mailbox>>

\* Message.process_message (lines 139-151) with a handle_message that does
\* h: the call runs to its end without suspending.
MessageProcessMessage(c, a, h) ==
    /\ mpc[c] = "idle"
    /\ a.kind = "Message"
    /\ a.data.type \in {"str", "bytes"}
    /\ LET f == Enrich(a) IN
       /\ message' = [message EXCEPT ![c] = f.message]
       /\ handed' = [handed EXCEPT ![c] = f.handed]
       /\ events' = [events EXCEPT ![c] = f.events]
    /\ margs' = [margs EXCEPT ![c] = a]
    /\ hout' = [hout EXCEPT ![c] = h]
    /\ mout' = [mout EXCEPT ![c] = ProcessOutcome(h)]
    /\ mpc' = [mpc EXCEPT ![c] = "done"]
    /\ UNCHANGED mailbox

\* Message.process_message on a Mailbox (lines 139-151, 186-187): the
\* message is added to the mailbox unless the store fails.
MailboxProcessMessage(c, a, h) ==
    /\ mpc[c] = "idle"
    /\ a.kind = "Mailbox"
    /\ a.data.type \in {"str", "bytes"}
    /\ LET f == Enrich(a) IN
       /\ message' = [message EXCEPT ![c] = f.message]
       /\ handed' = [handed EXCEPT ![c] = f.handed]
       /\ events' = [events EXCEPT ![c] = f.events]
       /\ mailbox' = IF h.how = "returned" THEN mailbox \o f.handed ELSE mailbox
    /\ margs' = [margs EXCEPT ![c] = a]
    /\ hout' = [hout EXCEPT ![c] = h]
    /\ mout' = [mout EXCEPT ![c] = ProcessOutcome(h)]
    /\ mpc' = [mpc EXCEPT ![c] = "done"]

\* AsyncMessage.process_message (lines 160-173) up to the point where
\* handle_message, invoked with the message, suspends.
AsyncProcessMessage(c, a) ==
    /\ mpc[c] = "idle"
    /\ a.kind = "AsyncMessage"
    /\ a.data.type \in {"str", "bytes"}
    /\ LET f == Enrich(a) IN
       /\ message' = [message EXCEPT ![c] = f.message]
       /\ handed' = [handed EXCEPT ![c] = f.handed]
       /\ events' = [events EXCEPT ![c] = f.events]
    /\ margs' = [margs EXCEPT ![c] = a]
    /\ mpc' = [mpc EXCEPT ![c] = "handling"]
    /\ UNCHANGED <<hout, mout, mailbox>>

\* Line 173 when the suspended handle_message comes to its end with h.
AsyncHandleDone(c, h) ==
    /\ mpc[c] = "handling"
    /\ hout' = [hout EXCEPT ![c] = h]
    /\ mout' = [mout EXCEPT ![c] = ProcessOutcome(h)]
    /\ mpc' = [mpc EXCEPT ![c] = "done"]
    /\ UNCHANGED <<margs, message, handed, events, mailbox>>

\* Mailbox.reset (lines 189-190): the mailbox is emptied.
MailboxReset ==
    /\ mailbox' = << >>
    /\ UNCHANGED <<mpc, margs, message, handed, events, hout, mout>>

MsgNext ==
    \/ MailboxReset
    \/ \E c \in MsgCalls :
        \/ \E a \in MsgArgs : MessageTypeMismatch(c, a)
        \/ \E a \in MsgArgs, h \in HandleOutcomes : MessageProcessMessage(c, a, h)
        \/ \E a \in MsgArgs : \E h \in MailboxOutcomes(a.data) : MailboxProcessMessage(c, a, h)
        \/ \E a \in MsgArgs : AsyncProcessMessage(c, a)
        \/ \E h \in HandleOutcomes : AsyncHandleDone(c, h)

---------------------------------------------------------------------------
(* Specifications *)

Init == ProxyInit /\ InsIdle /\ MsgIdle

Next == ProxyNext /\ UNCHANGED <<insVars, msgVars>>

\* One Proxy instance, its calls interleaved at every step, with everything
\* the session can do.
Spec == Init /\ [][Next]_vars

InitInsert == ProxyInit /\ InsInit /\ MsgIdle

NextInsert == InsertPeer /\ UNCHANGED <<proxyVars, msgVars>>

\* The header insertion over every body up to the bound.
SpecInsert == InitInsert /\ [][NextInsert]_vars

InitMsg == ProxyInit /\ InsIdle /\ MsgIdle

NextMsg == MsgNext /\ UNCHANGED <<proxyVars, insVars>>

\* Message, AsyncMessage and Mailbox handlers, their calls interleaved
\* where handle_message suspends.
SpecMsg == InitMsg /\ [][NextMsg]_vars

---------------------------------------------------------------------------
(* Claims about Proxy, checked under Spec *)

Finished(c) == pc[c] \in {"done", "raised"}

\* The calls that have created their session object.
Created == {i \in Calls : sessions[i] # NoSession}

\* C1 as stated: when process_message has returned (or raised), the session
\* the call created has been released with quit, whatever the exit path,
\* including a failure of connect.
C1_ReleasedOnEveryExit ==
    \A i \in Created :
        Finished(sessions[i].owner) => sessions[i].quits >= 1

\* C1 amended: when process_message is over, a session whose connect
\* succeeded has been released with quit exactly once, whether sendmail
\* returned, refused or failed; a session whose connect failed was never
\* connected and quit is not called on it.
C1_ReleasedOnceConnected ==
    \A i \in Created :
        Finished(sessions[i].owner) =>
            /\ sessions[i].connected => sessions[i].quits = 1
            /\ ~sessions[i].connected => sessions[i].quits = 0

\* C1 witness: a call is over whose sendmail raised and whose session was
\* released.
C1_Witness ==
    \E c \in Calls :
        /\ pc[c] = "done"
        /\ sendres[c].how = "raised"
        /\ sendres[c].exc.kind = "SMTPResponseException"
        /\ sessions[s[c]].connected
        /\ sessions[s[c]].quits = 1

\* The session of call c failed with a transport or protocol failure:
\* connect failed, sendmail raised something other than
\* all-recipients-refused, or such a failure was handled.
TransportFailure(c) ==
    \/ ~sessions[s[c]].connected
    \/ sendres[c].how = "raised" /\ Catches(sendres[c].exc.kind)
                               /\ sendres[c].exc.kind # "SMTPRecipientsRefused"
    \/ caught[c].kind \notin {"none", "SMTPRecipientsRefused"}

\* C2: when the relay was unreachable or the session failed with a transport
\* or protocol failure (an OSError or an SMTPException other than
\* SMTPRecipientsRefused), _deliver handled such a failure and the refusal
\* set it returned has exactly the recipients of the transaction as keys,
\* each mapped to the handled failure's code and message when it carries
\* them and to (-1, 'ignore') when it does not.
C2_TransportFailureRefusesAll ==
    \A c \in Calls :
        (pc[c] = "done" /\ TransportFailure(c)) =>
            /\ caught[c].kind \in {"OSError", "SMTPServerDisconnected", "SMTPResponseException"}
            /\ DOMAIN refused[c] = Range(txn[c].rcpttos)
            /\ \A k \in DOMAIN txn[c].rcpttos :
                   refused[c][txn[c].rcpttos[k]] =
                       IF caught[c].has_code
                       THEN <<caught[c].smtp_code, caught[c].smtp_error>>
                       ELSE <<-1, "ignore">>

\* C2 witness: connect failed with a failure that carries a code, and both
\* recipients are refused with it.
C2_Witness ==
    \E c \in Calls :
        /\ pc[c] = "done"
        /\ ~sessions[s[c]].connected
        /\ caught[c] = ResponseException(554, "rejected")
        /\ txn[c].rcpttos = <<"r1", "r2">>
        /\ refused[c]["r2"] = <<554, "rejected">>

\* C3 as stated: when sendmail returned with no refused recipient, the
\* refusal set _deliver returns and process_message logs is empty, whatever
\* happens while the session is released.
C3_AcceptedAllIsEmpty ==
    \A c \in Calls :
        (pc[c] = "done" /\ sendres[c].how = "returned" /\ sendres[c].map = EmptyMap) =>
            /\ refused[c] = EmptyMap
            /\ logged[c] = <<EmptyMap>>

\* C4 as stated: process_message never raises to its caller for what
\* happens on the downstream session (only a usage error at construction
\* or a body of the wrong type may escape a handler); when it is over the
\* refusal set has been logged exactly once, and nothing is logged before.
C4_AlwaysAbsorbed ==
    \A c \in Calls :
        /\ pc[c] # "raised"
        /\ pc[c] = "done" => logged[c] = <<refused[c]>>
        /\ pc[c] # "done" => logged[c] = << >>

\* C5 as stated: when sendmail raised SMTPRecipientsRefused with a mapping,
\* the refusal set _deliver returns is that mapping, verbatim.
C5_RefusedMappingVerbatim ==
    \A c \in Calls :
        (pc[c] = "done" /\ sendres[c].how = "raised"
                        /\ sendres[c].exc.kind = "SMTPRecipientsRefused") =>
            refused[c] = sendres[c].exc.recipients

\* C10: under every interleaving each session is used by the call that
\* created it and by no other, carries at most one submission, that of its
\* own call (its sender, its recipients, its body with the peer line), is
\* connected to the configured endpoint and, once connected, has been
\* released by its own call when that call is over; a call's refusal set
\* mentions only its own recipients; the configured host and port never
\* change.
C10_CallsIsolated ==
    /\ hostname = RemoteHost
    /\ port = RemotePort
    /\ \A i \in Created :
           LET x == sessions[i] IN
           /\ s[x.owner] = i
           /\ x.for = txn[x.owner]
           /\ x.users \subseteq {x.owner}
           /\ x.quits <= 1
           /\ (Finished(x.owner) /\ x.connected) => x.quits = 1
           /\ Len(x.sent) <= 1
           /\ \A k \in DOMAIN x.sent :
                  x.sent[k] = <<x.for.mailfrom, x.for.rcpttos, data[x.owner]>>
           /\ x.target \in {<<"", 0>>, <<RemoteHost, RemotePort>>}
    /\ \A c \in Calls :
           /\ pc[c] # "idle" => data[c] = AddPeer(txn[c].peer, txn[c].data)
           /\ DOMAIN refused[c] \subseteq Range(txn[c].rcpttos)

\* C10 witness: two calls with different transactions both have their
\* session open, each having submitted on it.
C10_Witness ==
    \E c, d \in Calls :
        /\ c # d
        /\ pc[c] = "quit"
        /\ pc[d] = "quit"
        /\ txn[c] # txn[d]
        /\ s[c] # s[d]
        /\ Len(sessions[s[c]].sent) = 1
        /\ Len(sessions[s[d]].sent) = 1
        /\ sessions[s[c]].quits = 0
        /\ sessions[s[d]].quits = 0

---------------------------------------------------------------------------
(* Claim about the header insertion, checked under SpecInsert *)

HasBlank(lines) == \E k \in 1..Len(lines) : lines[k] = << >>

FirstBlank(lines) ==
    CHOOSE k \in 1..Len(lines) :
        lines[k] = << >> /\ \A m \in 1..(k-1) : lines[m] # << >>

\* C6: the body produced has the lines of the body given, in their order,
\* plus one line 'X-Peer: <peer host>': right before the first blank line
\* when there is one, last when there is none; the insertion index is
\* within the line sequence.
C6_PeerLineBeforeFirstBlank ==
    insPc = "out" =>
        LET lines == Split(insBody)
            out == Split(insOut)
            x == PeerLine(insPeer)
        IN /\ Len(out) = Len(lines) + 1
           /\ LastHeader(lines) \in 0..Len(lines)
           /\ IF HasBlank(lines)
              THEN LET b == FirstBlank(lines) IN
                   /\ out[b] = x
                   /\ out[b+1] = << >>
                   /\ \A k \in 1..(b-1) : out[k] = lines[k] /\ out[k] # << >>
                   /\ \A k \in b..Len(lines) : out[k+1] = lines[k]
              ELSE /\ out[Len(out)] = x
                   /\ \A k \in 1..Len(lines) : out[k] = lines[k]

\* C6 witness: the body made of a single blank line got the peer line in
\* front.
C6_Witness ==
    /\ insPc = "out"
    /\ insBody = <<NL>>
    /\ insOut = PeerLine(insPeer) \o <<NL, NL>>

---------------------------------------------------------------------------
(* Claims about Message and AsyncMessage, checked under SpecMsg *)

Invoked(c) == Len(handed[c]) > 0

\* C7: the message handle_message is invoked with has every header of the
\* decoded body, in order and with its value, followed by X-Peer = str(peer),
\* X-MailFrom = the sender and X-RcptTos = the recipients joined by ', ';
\* a header of the body with one of these names is kept and the provenance
\* value is one more occurrence.
C7_ProvenanceAppended ==
    \A c \in MsgCalls :
        Invoked(c) =>
            LET orig == Decode(margs[c].data).headers
                h == handed[c][1].headers
                n == Len(orig)
            IN /\ Len(h) = n + 3
               /\ SubSeq(h, 1, n) = orig
               /\ h[n+1] = <<"X-Peer", StrPeer(margs[c].peer)>>
               /\ h[n+2] = <<"X-MailFrom", <<margs[c].mailfrom>>>>
               /\ h[n+3] = <<"X-RcptTos", JoinRcpts(margs[c].rcpttos)>>
               /\ handed[c][1].payload = Decode(margs[c].data).payload

\* C7 witness: a body that came with its own X-Peer header is handed over
\* with both occurrences, and the two recipients joined in their order.
C7_Witness ==
    \E c \in MsgCalls :
        /\ Invoked(c)
        /\ handed[c][1].headers[1] = <<"X-Peer", "forged">>
        /\ handed[c][1].headers[3] = <<"X-Peer", StrPeer(margs[c].peer)>>
        /\ handed[c][1].headers[5] = <<"X-RcptTos", <<"r2", ", ", "r1">>>>

\* C8: process_message decodes, sets X-Peer, X-MailFrom and X-RcptTos and
\* then invokes handle_message, in this order; handle_message is invoked
\* once per transaction whose body decodes and not at all otherwise, with
\* the three headers set, and the message of the call is the one handed
\* over for as long as the handle step runs and after it.
C8_DecodeProvenanceHandle ==
    \A c \in MsgCalls :
        /\ mpc[c] \in {"handling", "done"} =>
               IF margs[c].data.type \in {"str", "bytes"}
               THEN /\ events[c] = <<"decode", "X-Peer", "X-MailFrom", "X-RcptTos", "handle">>
                    /\ Len(handed[c]) = 1
                    /\ message[c] = handed[c][1]
                    /\ \A name \in {"X-Peer", "X-MailFrom", "X-RcptTos"} :
                           \E k \in DOMAIN handed[c][1].headers :
                               handed[c][1].headers[k][1] = name
               ELSE handed[c] = << >> /\ events[c] = << >>
        /\ mpc[c] = "idle" => handed[c] = << >>

\* C8 witness: one call is suspended in handle_message while another call
\* on an AsyncMessage handler has run to its end.
C8_Witness ==
    \E c, d \in MsgCalls :
        /\ c # d
        /\ mpc[c] = "handling"
        /\ margs[c].kind = "AsyncMessage"
        /\ mpc[d] = "done"
        /\ margs[d].kind = "AsyncMessage"
        /\ Invoked(d)
        /\ margs[c] # margs[d]

\* C9 as stated: the outcome of handle_message is the outcome of
\* process_message: the same failure when it fails, the same value when it
\* returns one.
C9_HandleOutcomeIsProcessOutcome ==
    \A c \in MsgCalls :
        (mpc[c] = "done" /\ hout[c].how # "none") => mout[c] = hout[c]

====
